---- MODULE Spec2Model ----
(***************************************************************************)
(* A model of ConceptRouter (src/src/conceptRouter.ts): the per-concept    *)
(* action registry (actions, options, syncs), its lookups, the four CRUD   *)
(* generators and the action bodies they synthesize over the document      *)
(* store.                                                                  *)
(*                                                                         *)
(* The three tables are plain JavaScript objects created by `{}`, so they  *)
(* inherit the keys of Object.prototype.  A table is modelled as a TLA+    *)
(* function whose DOMAIN is the set of its OWN keys; the `in` operator and *)
(* the property read `obj[name]` are modelled with the prototype chain.    *)
(***************************************************************************)
EXTENDS Integers, Sequences, FiniteSets, TLC

VARIABLES
    actions,    \* this.actions : own keys -> action body
    options,    \* this.options : own keys -> ActionOptions
    syncs,      \* this.syncs   : own keys -> sequence of follow-up actions
    last,       \* the last call made on the router and how it ended
    store,      \* the document store: identifier -> stored document
    now,        \* the store's clock
    nextId,     \* the next identifier the store issues
    res,        \* what the last invocation of an action body wrote to its response
    pending     \* the update invocations suspended between their two store operations

regVars == <<actions, options, syncs>>
dbVars == <<store, now, nextId>>
reqVars == <<res, pending>>
vars == <<actions, options, syncs, last, store, now, nextId, res, pending>>

----------------------------------------------------------------------------
(* Bounds of the model. *)

\* At most this many actions are registered on one router.
MaxActions == 2
\* At most this many follow-ups are recorded under one name.
MaxSync == 2
\* The store issues at most this many identifiers.
MaxDocs == 2
\* The store's clock stops at this value.
MaxClock == 1
\* At most this many update invocations are suspended at one time.
MaxInFlight == 2

----------------------------------------------------------------------------
(* Values. *)

\* Keys every object literal inherits from Object.prototype.
ProtoKeys == {"constructor"}

\* Object.prototype, restricted to ProtoKeys: the value each inherited key reads as.
ObjectPrototype == [k \in ProtoKeys |-> "Object"]

\* The canonical names of the four generators.
CrudNames == {"create", "read", "update", "delete"}

\* Names callers pass to defineAction: one that a generator may also
\* register, and an inherited key.
DefineNames == {"create", "constructor"}

\* Names callers pass to sync.
SyncNames == {"create", "constructor"}

\* Names looked up with action() and handlers().
Names == CrudNames \cup DefineNames \cup SyncNames \cup ProtoKeys

\* Caller-supplied action bodies, validators and follow-ups.
Bodies == {"b1", "b2"}
Validators == {"v1", "v2"}
FollowUps == {"f1", "f2"}

\* The body a generator synthesizes for its canonical name.
SynthBody(name) == name \o "Body"

\* The `options?` argument: absent (given = FALSE), or an ActionOptions object
\* whose `validate` property is absent (has = FALSE) or a list of validators.
NoOptions == [given |-> FALSE, has |-> FALSE, validate |-> <<>>]
OptionsObject(has, list) == [given |-> TRUE, has |-> has, validate |-> list]
OptionChoices == { NoOptions,
                   OptionsObject(FALSE, <<>>),
                   OptionsObject(TRUE, <<"v1", "v2">>) }

\* The errors a call can end with.
DuplicateActionError == "Action already defined"
UnknownActionError == "Action does not exist"
UndefinedActionError == "Action is not defined"
TypeError == "TypeError: push is not a function"

----------------------------------------------------------------------------
(* JavaScript object semantics. *)

\* `name in obj` for an object created by `{}`: own keys and inherited keys.
In(name, obj) == name \in DOMAIN obj \/ name \in DOMAIN ObjectPrototype

\* `obj[name]` for a key that is `in` obj: the own value, else the inherited one.
Get(obj, name) == IF name \in DOMAIN obj THEN obj[name] ELSE ObjectPrototype[name]

\* `obj[name] = value`: defines or overwrites an own key.
Put(obj, name, value) == [k \in DOMAIN obj \cup {name} |-> IF k = name THEN value ELSE obj[k]]

\* `this.options[name].validate || []` for a name that is `in` options: an
\* inherited value (a function of Object.prototype) has no `validate` property.
ValidateOrEmpty(name) ==
    IF name \in DOMAIN options /\ options[name].has
    THEN options[name].validate
    ELSE <<>>

----------------------------------------------------------------------------
(* The outcome of a call. *)

Call(op, name) == [op |-> op, name |-> name, status |-> "return", error |-> "",
                   ret |-> "", chain |-> <<>>]

Throw(call, error) == [call EXCEPT !.status = "throw", !.error = error]

NoCall == Call("new", "")

\* JavaScript's null, and the state of a response nothing was written to.
Null == [null |-> TRUE]
NoResponse == [action |-> "", req |-> Null, ops |-> <<>>, kind |-> "none", body |-> Null]

----------------------------------------------------------------------------
(* The registry. *)

Init ==
    /\ actions = <<>>
    /\ options = <<>>
    /\ syncs = <<>>
    /\ last = NoCall
    /\ store = <<>>
    /\ now = 0
    /\ nextId = 1
    /\ res = NoResponse
    /\ pending = <<>>

\* action(name): the raw body.
actionResult(name) ==
    IF ~ In(name, actions)
    THEN Throw(Call("action", name), UnknownActionError)
    ELSE [Call("action", name) EXCEPT !.ret = Get(actions, name)]

action(name) ==
    /\ last' = actionResult(name)
    /\ UNCHANGED <<regVars, dbVars, reqVars>>

\* A handlers() that returns the validators alone when there are some.
composeHandlers_validatorsOrBody(validators, body) ==
    IF validators = <<>> THEN <<body>> ELSE validators

\* A handlers() that pushes the body before the validators.
composeHandlers_bodyFirst(validators, body) == <<body>> \o validators

\* The array handlers(name) builds: the validators, then the body.
composeHandlers(validators, body) == validators \o <<body>>

\* A handlers() that also appends the follow-ups recorded under the name.
handlersResult_appendsSyncs(name) ==
    IF ~ In(name, actions)
    THEN Throw(Call("handlers", name), UndefinedActionError)
    ELSE [Call("handlers", name) EXCEPT
            !.chain = composeHandlers(IF In(name, options) THEN ValidateOrEmpty(name) ELSE <<>>,
                                      Get(actions, name))
                      \o (IF name \in DOMAIN syncs THEN syncs[name] ELSE <<>>)]

\* handlers(name): the composed chain.
handlersResult(name) ==
    IF ~ In(name, actions)
    THEN Throw(Call("handlers", name), UndefinedActionError)
    ELSE [Call("handlers", name) EXCEPT
            !.chain = composeHandlers(IF In(name, options) THEN ValidateOrEmpty(name) ELSE <<>>,
                                      Get(actions, name))]

\* A handlers() that pushes the body onto the stored validator list itself
\* instead of a fresh array.
handlers_pushesIntoOptions(name) ==
    /\ last' = handlersResult(name)
    /\ options' = IF In(name, actions) /\ name \in DOMAIN options /\ options[name].has
                  THEN Put(options, name,
                           [options[name] EXCEPT
                              !.validate = Append(options[name].validate, Get(actions, name))])
                  ELSE options
    /\ UNCHANGED <<actions, syncs, dbVars, reqVars>>

handlers(name) ==
    /\ last' = handlersResult(name)
    /\ UNCHANGED <<regVars, dbVars, reqVars>>

\* A defineAction that checks nothing and overwrites.
alreadyDefined_never(name) == FALSE

\* The guard of defineAction: `name in this.actions`.
alreadyDefined(name) == In(name, actions)

\* A defineAction that stores the options before it checks the name.
defineAction_optionsBeforeCheck(name, body, opts) ==
    LET call == Call("defineAction", name)
        stored == IF opts.given
                  THEN Put(options, name, [has |-> opts.has, validate |-> opts.validate])
                  ELSE options
    IN
    IF alreadyDefined(name)
    THEN /\ options' = stored
         /\ last' = Throw(call, DuplicateActionError)
         /\ UNCHANGED <<actions, syncs, dbVars, reqVars>>
    ELSE /\ Cardinality(DOMAIN actions) < MaxActions
         /\ actions' = Put(actions, name, body)
         /\ options' = stored
         /\ last' = call
         /\ UNCHANGED <<syncs, dbVars, reqVars>>

\* defineAction(name, action, options?)
defineAction(name, body, opts) ==
    LET call == Call("defineAction", name) IN
    IF alreadyDefined(name)
    THEN /\ last' = Throw(call, DuplicateActionError)
         /\ UNCHANGED <<regVars, dbVars, reqVars>>
    ELSE /\ Cardinality(DOMAIN actions) < MaxActions
         /\ actions' = Put(actions, name, body)
         /\ options' = IF opts.given
                       THEN Put(options, name, [has |-> opts.has, validate |-> opts.validate])
                       ELSE options
         /\ last' = call
         /\ UNCHANGED <<syncs, dbVars, reqVars>>

\* sync(name, action)
sync(name, f) ==
    LET call == Call("sync", name)
        \* if (!(name in this.syncs)) this.syncs[name] = [];
        created == IF ~ In(name, syncs) THEN Put(syncs, name, <<>>) ELSE syncs
    IN
    IF name \in DOMAIN created
    THEN \* this.syncs[name].push(action)
         /\ Len(created[name]) < MaxSync
         /\ syncs' = Put(created, name, Append(created[name], f))
         /\ last' = call
         /\ UNCHANGED <<actions, options, dbVars, reqVars>>
    ELSE \* the value read is inherited from Object.prototype: it has no `push`
         /\ syncs' = created
         /\ last' = Throw(call, TypeError)
         /\ UNCHANGED <<actions, options, dbVars, reqVars>>

\* The four generators: each passes its canonical name, the body it
\* synthesizes and the caller's options to defineAction.
defineCreateAction_dropsOptions(opts) == defineAction("create", SynthBody("create"), NoOptions)

defineCreateAction(opts) == defineAction("create", SynthBody("create"), opts)

defineReadAction(opts) == defineAction("read", SynthBody("read"), opts)

defineUpdateAction(opts) == defineAction("update", SynthBody("update"), opts)

defineDeleteAction(opts) == defineAction("delete", SynthBody("delete"), opts)

Next ==
    \/ \E name \in DefineNames, body \in Bodies, opts \in OptionChoices :
          defineAction(name, body, opts)
    \/ \E name \in SyncNames, f \in FollowUps : sync(name, f)
    \/ \E name \in Names : action(name)
    \/ \E name \in Names : handlers(name)
    \/ \E opts \in OptionChoices : defineCreateAction(opts)
    \/ \E opts \in OptionChoices : defineReadAction(opts)
    \/ \E opts \in OptionChoices : defineUpdateAction(opts)
    \/ \E opts \in OptionChoices : defineDeleteAction(opts)

Spec == Init /\ [][Next]_vars

----------------------------------------------------------------------------
(* Documents, patches and filters. *)

\* The fields of a document payload and the values each takes.
Fields == {"title", "author"}
FieldValues == [title |-> {"x", "y"}, author |-> {"a", "b"}]
AllValues == UNION {FieldValues[f] : f \in Fields}

\* The records over the field set D.
RecordsOver(D) == {r \in [D -> AllValues] : \A f \in D : r[f] \in FieldValues[f]}

\* req.body.document: a full document payload.
Payloads == RecordsOver(Fields)

\* The record with no field.
EmptyRecord == [f \in {} |-> ""]

\* req.body.partialDocument: the patches requests carry.
Updates == { [title |-> "x"], [title |-> "y"], [author |-> "b"], EmptyRecord }

\* req.query.filter: the filters requests carry.
Filters == { EmptyRecord, [title |-> "x"], [title |-> "y", author |-> "b"] }

\* req.params._id: the identifiers requests name.
RequestIds == 1..MaxDocs

\* { ...document, _id }: the document with the identifier added.
WithId(document, id) ==
    [f \in DOMAIN document \cup {"_id"} |-> IF f = "_id" THEN id ELSE document[f]]

----------------------------------------------------------------------------
(* The document store (ConceptDb), as section 6 of the specification        *)
(* describes it: identifiers are issued by the store, and the store keeps   *)
(* each document's last-updated time.                                       *)

\* Whether a stored document satisfies a filter (equality on the filter's fields).
Matches(document, filter) == \A f \in DOMAIN filter : document[f] = filter[f]

\* The store without the document `id`.
Without(st, id) == [k \in DOMAIN st \ {id} |-> st[k]]

\* createOne(document): the store after the insert; the identifier is nextId.
createOne(st, document, id, time) ==
    Put(st, id, [f \in Fields \cup {"dateUpdated"} |->
                    IF f = "dateUpdated" THEN time ELSE document[f]])

\* updateOneById(_id, update): the patch's fields replace the document's.
updateOneById(st, id, update, time) ==
    IF id \notin DOMAIN st
    THEN st
    ELSE Put(st, id, [f \in DOMAIN st[id] |->
                        IF f = "dateUpdated" THEN time
                        ELSE IF f \in DOMAIN update THEN update[f]
                        ELSE st[id][f]])

\* readOneById(_id): the document, or null.
readOneById(st, id) == IF id \in DOMAIN st THEN WithId(st[id], id) ELSE Null

\* popOneById(_id): the store after the removal, and the removed document or null.
popOneById(st, id) ==
    IF id \in DOMAIN st
    THEN [store |-> Without(st, id), document |-> WithId(st[id], id)]
    ELSE [store |-> st, document |-> Null]

\* Whether the sequence of identifiers s follows the sort specification:
\* direction -1 is descending dateUpdated, 1 ascending; equal times in any order.
Ordered(st, s, direction) ==
    \A i, j \in 1..Len(s) :
        i < j => direction * st[s[i]].dateUpdated <= direction * st[s[j]].dateUpdated

\* readMany(filter, {sort}): the results the store may return, each a sequence
\* of all matching documents in an order the sort specification allows.
readMany(st, filter, sortSpec) ==
    LET hits == {id \in DOMAIN st : Matches(st[id], filter)}
        n == Cardinality(hits)
        orders == {s \in [1..n -> hits] :
                     /\ \A i, j \in 1..n : i # j => s[i] # s[j]
                     /\ Ordered(st, s, sortSpec.dateUpdated)}
    IN {[i \in 1..n |-> WithId(st[s[i]], s[i])] : s \in orders}

\* The error a store operation fails with.
StoreError == "StoreError"

----------------------------------------------------------------------------
(* The action bodies the generators synthesize.  A dispatcher runs the body *)
(* that handlers(name) ends with; each store operation may fail, and the    *)
(* body does not catch the error.                                           *)

\* A store operation the body issued, and whether its promise resolved or rejected.
Ok(op) == [op |-> op, ok |-> TRUE]
Failed(op) == [op |-> op, ok |-> FALSE]

\* How an invocation ends: with res.json(body), or with the rejected store
\* operation's error thrown out of the body.  `ops` lists the store operations
\* the invocation issued, in order.
Respond(name, req, ops, body) ==
    [action |-> name, req |-> req, ops |-> ops, kind |-> "json", body |-> body]
Reject(name, req, ops, error) ==
    [action |-> name, req |-> req, ops |-> ops, kind |-> "throw", body |-> [error |-> error]]

\* The body registered under `name` is the one its generator synthesized.
Dispatches(name) ==
    /\ handlersResult(name).status = "return"
    /\ handlersResult(name).chain = <<SynthBody(name)>>

\* A create body that responds with the payload alone, without its _id.
createBody_omitsId(document) ==
    LET req == [document |-> document] IN
    /\ Dispatches("create")
    /\ nextId <= MaxDocs
    /\ \/ /\ store' = createOne(store, document, nextId, now)
          /\ nextId' = nextId + 1
          /\ res' = Respond("create", req, <<Ok("createOne")>>, [document |-> document])
       \/ /\ res' = Reject("create", req, <<Failed("createOne")>>, StoreError)
          /\ UNCHANGED <<store, nextId>>
    /\ UNCHANGED <<regVars, last, now, pending>>

\* "create": insert req.body.document, respond with it and its new _id.
createBody(document) ==
    LET req == [document |-> document] IN
    /\ Dispatches("create")
    /\ nextId <= MaxDocs
    /\ \/ /\ store' = createOne(store, document, nextId, now)
          /\ nextId' = nextId + 1
          /\ res' = Respond("create", req, <<Ok("createOne")>>, [document |-> WithId(document, nextId)])
       \/ /\ res' = Reject("create", req, <<Failed("createOne")>>, StoreError)
          /\ UNCHANGED <<store, nextId>>
    /\ UNCHANGED <<regVars, last, now, pending>>

\* A read action that asks for the oldest first.
readSort_ascending == [dateUpdated |-> 1]

\* The sort the read action asks the store for.
readSort == [dateUpdated |-> -1]

\* "read": respond with the documents matching req.query.filter.
readBody(filter) ==
    LET req == [filter |-> filter] IN
    /\ Dispatches("read")
    /\ \/ \E documents \in readMany(store, filter, readSort) :
            res' = Respond("read", req, <<Ok("readMany")>>, [documents |-> documents])
       \/ res' = Reject("read", req, <<Failed("readMany")>>, StoreError)
    /\ UNCHANGED <<regVars, last, dbVars, pending>>

\* An update body that responds with the patch instead of reading the document back.
updateBody_echoesPatch(id, update) ==
    LET req == [id |-> id, partialDocument |-> update]
        updated == updateOneById(store, id, update, now)
    IN
    /\ Dispatches("update")
    /\ \/ /\ store' = updated
          /\ res' = Respond("update", req, <<Ok("updateOneById")>>, [document |-> WithId(update, id)])
       \/ /\ res' = Reject("update", req, <<Failed("updateOneById")>>, StoreError)
          /\ UNCHANGED store
    /\ UNCHANGED <<regVars, last, now, nextId, pending>>

\* An update body that catches a failed updateOneById and goes on to read the
\* document back and respond.
updateBody_swallowsUpdateError(id, update) ==
    LET req == [id |-> id, partialDocument |-> update]
        updated == updateOneById(store, id, update, now)
    IN
    /\ Dispatches("update")
    /\ \/ /\ store' = updated
          /\ res' = Respond("update", req, <<Ok("updateOneById"), Ok("readOneById")>>,
                          [document |-> readOneById(updated, id)])
       \/ /\ res' = Respond("update", req, <<Failed("updateOneById"), Ok("readOneById")>>,
                          [document |-> readOneById(store, id)])
          /\ UNCHANGED store
       \/ /\ store' = updated
          /\ res' = Reject("update", req, <<Ok("updateOneById"), Failed("readOneById")>>,
                         StoreError)
    /\ UNCHANGED <<regVars, last, now, nextId, pending>>

\* "update": patch the document, then respond with the document read back.
updateBody(id, update) ==
    LET req == [id |-> id, partialDocument |-> update]
        updated == updateOneById(store, id, update, now)
    IN
    /\ Dispatches("update")
    /\ \/ /\ store' = updated
          /\ res' = Respond("update", req, <<Ok("updateOneById"), Ok("readOneById")>>,
                          [document |-> readOneById(updated, id)])
       \/ \* updateOneById fails
          /\ res' = Reject("update", req, <<Failed("updateOneById")>>, StoreError)
          /\ UNCHANGED store
       \/ \* readOneById fails
          /\ store' = updated
          /\ res' = Reject("update", req, <<Ok("updateOneById"), Failed("readOneById")>>,
                         StoreError)
    /\ UNCHANGED <<regVars, last, now, nextId, pending>>

\* A delete body that raises when no document was removed.
deleteBody_throwsOnMiss(id) ==
    LET req == [id |-> id]
        popped == popOneById(store, id)
    IN
    /\ Dispatches("delete")
    /\ store' = popped.store
    /\ res' = IF popped.document = Null
              THEN Reject("delete", req, <<Ok("popOneById")>>, "NotFound")
              ELSE Respond("delete", req, <<Ok("popOneById")>>, [document |-> popped.document])
    /\ UNCHANGED <<regVars, last, now, nextId, pending>>

\* "delete": remove the document, respond with it (or null).
deleteBody(id) ==
    LET req == [id |-> id]
        popped == popOneById(store, id)
    IN
    /\ Dispatches("delete")
    /\ \/ /\ store' = popped.store
          /\ res' = Respond("delete", req, <<Ok("popOneById")>>, [document |-> popped.document])
       \/ /\ res' = Reject("delete", req, <<Failed("popOneById")>>, StoreError)
          /\ UNCHANGED store
    /\ UNCHANGED <<regVars, last, now, nextId, pending>>

\* Time passes.
Tick ==
    /\ now < MaxClock
    /\ now' = now + 1
    /\ res' = NoResponse
    /\ UNCHANGED <<regVars, last, store, nextId, pending>>

\* The router after setup: the four generators were called, without options.
InitCrud ==
    /\ actions = [name \in CrudNames |-> SynthBody(name)]
    /\ options = <<>>
    /\ syncs = <<>>
    /\ last = Call("defineAction", "delete")
    /\ store = <<>>
    /\ now = 0
    /\ nextId = 1
    /\ res = NoResponse
    /\ pending = <<>>

NextCrud ==
    \/ \E document \in Payloads : createBody(document)
    \/ \E filter \in Filters : readBody(filter)
    \/ \E id \in RequestIds, update \in Updates : updateBody(id, update)
    \/ \E id \in RequestIds : deleteBody(id)
    \/ Tick

SpecCrud == InitCrud /\ [][NextCrud]_vars

----------------------------------------------------------------------------
(* Requests in flight.  An async body runs up to an `await`, and other      *)
(* invocations run while it is suspended.  The create, read and delete      *)
(* bodies issue one store operation each; the update body issues two, and   *)
(* is suspended between them.                                               *)

\* The invocations of the update body that may be suspended at one time.
Slots == 1..MaxInFlight

\* The first half of the update body, up to the end of
\* `await this.db.updateOneById(_id, update)`; `matched` is whether the store
\* found the document, which the body does not look at.
updateBodyPatch(r, id, update) ==
    LET req == [id |-> id, partialDocument |-> update] IN
    /\ Dispatches("update")
    /\ r \notin DOMAIN pending
    /\ \A q \in Slots : q < r => q \in DOMAIN pending
    /\ \/ /\ store' = updateOneById(store, id, update, now)
          /\ pending' = Put(pending, r, [req |-> req, matched |-> id \in DOMAIN store])
          /\ UNCHANGED res
       \/ \* updateOneById fails
          /\ res' = Reject("update", req, <<Failed("updateOneById")>>, StoreError)
          /\ UNCHANGED <<store, pending>>
    /\ UNCHANGED <<regVars, last, now, nextId>>

\* The second half: `await this.db.readOneById(_id)` and `res.json({ document })`.
updateBodyReadBack(r) ==
    /\ r \in DOMAIN pending
    /\ LET req == pending[r].req IN
       \/ res' = Respond("update", req, <<Ok("updateOneById"), Ok("readOneById")>>,
                         [document |-> readOneById(store, req.id)])
       \/ \* readOneById fails
          res' = Reject("update", req, <<Ok("updateOneById"), Failed("readOneById")>>,
                        StoreError)
    /\ pending' = Without(pending, r)
    /\ UNCHANGED <<regVars, last, dbVars>>

NextConc ==
    \/ \E document \in Payloads : createBody(document)
    \/ \E r \in Slots, id \in RequestIds, update \in Updates : updateBodyPatch(r, id, update)
    \/ \E r \in Slots : updateBodyReadBack(r)
    \/ \E id \in RequestIds : deleteBody(id)

SpecConc == InitCrud /\ [][NextConc]_vars

----------------------------------------------------------------------------
(* Properties of the registry, checked under Spec. *)

\* The validator list an `options?` argument supplies: empty when there are
\* no options or no `validate` list.
SuppliedValidators(opts) == IF opts.given /\ opts.has THEN opts.validate ELSE <<>>

\* A step of the generator for the canonical name `name`.
GeneratorStep(name, opts) ==
    CASE name = "create" -> defineCreateAction(opts)
      [] name = "read"   -> defineReadAction(opts)
      [] name = "update" -> defineUpdateAction(opts)
      [] name = "delete" -> defineDeleteAction(opts)

\* Every body defineAction may be called with.
AnyBody == Bodies \cup {SynthBody(name) : name \in CrudNames}

\* C1: once defineAction(name, b1) has succeeded, every later defineAction on
\* that name fails with the duplicate-action error, and after every further
\* operation action(name) still returns b1.
C1_FirstDefinitionStays ==
    [][/\ \/ UNCHANGED regVars   \* action() reads the tables alone
          \/ \A name \in DOMAIN actions : actionResult(name)' = actionResult(name)
       /\ (last'.op = "action" /\ last'.name \in DOMAIN actions) =>
            last' = actionResult(last'.name)
       /\ \A name \in Names :
            (last'.op = "defineAction" /\ last'.name = name) =>
               IF name \in DOMAIN actions
               THEN /\ last'.status = "throw"
                    /\ last'.error = DuplicateActionError
               ELSE last'.status = "return" =>
                      \A body \in AnyBody, opts \in OptionChoices :
                         defineAction(name, body, opts)
                            => /\ actionResult(name)'.status = "return"
                               /\ actionResult(name)'.ret = body
    ]_vars

\* A second defineAction on a name registered with b1 has failed.
C1_Witness ==
    /\ last.op = "defineAction"
    /\ last.status = "throw"
    /\ last.name \in DOMAIN actions
    /\ actions[last.name] = "b1"
    /\ actionResult(last.name).ret = "b1"

\* C2: for every name never registered through defineAction or a generator,
\* action(name) and handlers(name) fail with the unknown-action error,
\* names inherited from Object.prototype included.
C2_UnregisteredLookupFails ==
    (last.op \in {"action", "handlers"} /\ last.name \notin DOMAIN actions)
        => last.status = "throw"

\* C3: handlers(name) is the validator list the name was registered with
\* followed by its body, last and alone, and is the same at every call.
C3_HandlersAreValidatorsThenBody ==
    [][/\ \/ UNCHANGED regVars   \* handlers() reads the tables alone
          \/ \A name \in DOMAIN actions : handlersResult(name)' = handlersResult(name)
       /\ \A name \in Names :
            (last'.op = "defineAction" /\ last'.name = name /\ last'.status = "return") =>
               \A body \in AnyBody, opts \in OptionChoices :
                  defineAction(name, body, opts)
                     => /\ handlersResult(name)'.status = "return"
                        /\ handlersResult(name)'.chain = SuppliedValidators(opts) \o <<body>>
       /\ (last'.op = "handlers" /\ last'.name \in DOMAIN actions) =>
            /\ last'.status = "return"
            /\ last'.chain = handlersResult(last'.name).chain
    ]_vars

\* handlers(name) returned two validators and then the body.
C3_Witness ==
    /\ last.op = "handlers"
    /\ last.status = "return"
    /\ last.chain = <<"v1", "v2", "b1">>

\* C4: sync(name, f) never fails, for any name.
C4_SyncNeverFails == last.op = "sync" => last.status = "return"

\* C5: defineAction fails only when the name was registered by an earlier
\* defineAction or generator call (a failed call leaves the tables as they were).
C5_DefineFailsOnlyOnRegisteredName ==
    (last.op = "defineAction" /\ last.status = "throw") => last.name \in DOMAIN actions

\* C6: a generator called on a router where its canonical name is free
\* registers that one name, and handlers(canonical name) is then the supplied
\* validators followed by the synthesized body; where the name is taken the
\* generator fails with the duplicate-action error.
C6_GeneratorsForwardToDefineAction ==
    [][\A name \in CrudNames :
         (last'.op = "defineAction" /\ last'.name = name) =>
            \A opts \in OptionChoices :
               GeneratorStep(name, opts)
                  => IF name \in DOMAIN actions
                     THEN /\ last'.status = "throw"
                          /\ last'.error = DuplicateActionError
                          /\ UNCHANGED regVars
                     ELSE /\ last'.status = "return"
                          /\ DOMAIN actions' = DOMAIN actions \cup {name}
                          /\ \A other \in Names \ {name} :
                               /\ actionResult(other)' = actionResult(other)
                               /\ handlersResult(other)' = handlersResult(other)
                          /\ handlersResult(name)'.chain =
                               SuppliedValidators(opts) \o <<SynthBody(name)>>
    ]_vars

\* The create generator has registered "create" with two validators.
C6_Witness ==
    /\ last.op = "defineAction"
    /\ last.status = "return"
    /\ last.name = "create"
    /\ handlersResult("create").chain = <<"v1", "v2", SynthBody("create")>>

\* C11: action(name) and handlers(name) are pure lookups: whether the call
\* returns or fails, actions, options and syncs are after it exactly what they
\* were before it.
C11_LookupsChangeNoTable ==
    [][last'.op \in {"action", "handlers"} => UNCHANGED regVars]_vars

\* handlers() has returned a chain with validators on a router that also
\* records follow-ups.
C11_Witness ==
    /\ last.op = "handlers"
    /\ last.status = "return"
    /\ Len(last.chain) = 3
    /\ DOMAIN syncs # {}
    /\ last.name \in DOMAIN options
    /\ options[last.name].validate = <<"v1", "v2">>

\* The elements of a chain, as a set.
Stages(chain) == {chain[i] : i \in 1..Len(chain)}

\* C12: a defineAction(name, b2, options2) that fails on a registered name
\* changes no table, and handlers(name) is after it what it was before it: it
\* ends with the first body and holds no other body b2 and no validator
\* that the first registration did not supply, whatever options2 was.
C12_FailedDefineChangesNothing ==
    [][\A name \in Names :
         (/\ last'.op = "defineAction" /\ last'.name = name
          /\ last'.status = "throw" /\ name \in DOMAIN actions) =>
            /\ UNCHANGED regVars
            /\ handlersResult(name)' = handlersResult(name)
            /\ LET after == Stages(handlersResult(name).chain)' IN
               /\ actions[name] \in after
               /\ \A b2 \in AnyBody \ {actions[name]} : b2 \notin after
               /\ \A v \in Validators \ Stages(ValidateOrEmpty(name)) : v \notin after
    ]_vars

\* A second defineAction has failed on a name registered with b1 and no
\* validators, and handlers() of that name is still b1 alone.
C12_Witness ==
    /\ last.op = "defineAction"
    /\ last.status = "throw"
    /\ last.name \in DOMAIN actions
    /\ last.name \notin DOMAIN options
    /\ handlersResult(last.name).chain = <<"b1">>

\* C13: the sync table is write-only: a sync(name, f) call changes neither
\* actions nor options nor the outcome of action() or handlers() of any name
\* (a lookup that failed before it fails after it), and in every reachable
\* state no chain handlers() returns holds a follow-up recorded through sync.
C13_SyncsStayOutOfTheChain ==
    /\ [](\A name \in Names : Stages(handlersResult(name).chain) \cap FollowUps = {})
    /\ [](last.op = "handlers" => Stages(last.chain) \cap FollowUps = {})
    /\ [][last'.op = "sync" =>
            /\ UNCHANGED <<actions, options>>
            /\ \A name \in Names :
                 /\ actionResult(name)' = actionResult(name)
                 /\ handlersResult(name)' = handlersResult(name)
         ]_vars

\* A second follow-up has been recorded under a registered name, whose
\* chain is still its validators and its body.
C13_Witness ==
    /\ last.op = "sync"
    /\ last.status = "return"
    /\ last.name \in DOMAIN actions
    /\ syncs[last.name] = <<"f1", "f2">>
    /\ handlersResult(last.name).chain = <<"v1", "v2", "b1">>

\* C17: in every reachable state, every name with an entry in options has an
\* entry in actions, and for every registered name handlers(name) returns a
\* chain whose last element is what action(name) returns.
C17_OptionsHaveBodiesAndChainsEndWithThem ==
    /\ DOMAIN options \subseteq DOMAIN actions
    /\ \A name \in Names : In(name, options) => In(name, actions)
    /\ \A name \in DOMAIN actions :
         LET chain == handlersResult(name).chain IN
         /\ handlersResult(name).status = "return"
         /\ actionResult(name).status = "return"
         /\ Len(chain) > 0
         /\ chain[Len(chain)] = actionResult(name).ret

\* Two names are registered, one with validators and one without options.
C17_Witness ==
    /\ Cardinality(DOMAIN actions) = 2
    /\ Cardinality(DOMAIN options) = 1
    /\ \E name \in DOMAIN options :
         /\ Len(handlersResult(name).chain) = 3
         /\ handlersResult(name).chain[3] = actionResult(name).ret

----------------------------------------------------------------------------
(* Properties of the action bodies, checked under SpecCrud: each invocation *)
(* is one step, its request and response are in res'.                       *)

\* The documents of a read response, as a set.
Elements(documents) == {documents[i] : i \in 1..Len(documents)}

\* The stored documents a filter matches, as a read returns them.
Hits(st, filter) == {WithId(st[id], id) : id \in {k \in DOMAIN st : Matches(st[k], filter)}}

\* C7: the update action, for the identifier of a stored document and a
\* patch, responds with the stored document after the patch: the patch's
\* value in every field the patch names, the value before the update in every
\* other field of the payload; the document read back, not the patch.
C7_UpdateReturnsPatchedDocument ==
    [][(res'.action = "update" /\ res'.kind = "json" /\ res'.req.id \in DOMAIN store)
         => LET id == res'.req.id
                update == res'.req.partialDocument
                document == res'.body.document
            IN /\ document # Null
               /\ document = WithId(store'[id], id)
               /\ document["_id"] = id
               /\ \A f \in Fields :
                    document[f] = IF f \in DOMAIN update THEN update[f] ELSE store[id][f]
               /\ Fields \subseteq DOMAIN document
    ]_vars

\* An update that patched the title alone has responded with the whole
\* document, whose author is not the default one.
C7_Witness ==
    /\ res.action = "update"
    /\ res.kind = "json"
    /\ DOMAIN res.req.partialDocument = {"title"}
    /\ res.body.document # Null
    /\ res.body.document["title"] = res.req.partialDocument["title"]
    /\ res.body.document["author"] = "b"

\* C8: the delete action, for an identifier no stored document has, responds
\* with a null document, raises no error of its own and leaves the store as
\* it was; for the identifier of a stored document it removes that document
\* and responds with it.
C8_DeleteReturnsRemovedOrNull ==
    [][res'.action = "delete"
         => LET id == res'.req.id IN
            /\ res'.kind = "throw" => (res'.body.error = StoreError /\ store' = store)
            /\ res'.kind = "json" =>
                 IF id \in DOMAIN store
                 THEN /\ store' = Without(store, id)
                      /\ res'.body.document = WithId(store[id], id)
                 ELSE /\ store' = store
                      /\ res'.body.document = Null
    ]_vars

\* A delete has missed on a store that holds a document.
C8_Witness ==
    /\ res.action = "delete"
    /\ res.kind = "json"
    /\ res.body.document = Null
    /\ DOMAIN store # {}
    /\ res.req.id \notin DOMAIN store

\* C9: the create action inserts exactly one document, the payload under a
\* new identifier, and responds with the payload plus that identifier; a read
\* whose filter matches a stored document returns it, and returns it first
\* when it is the most recently updated match.
C9_CreateInsertsOneAndReadFindsIt ==
    [][/\ (res'.action = "create" /\ res'.kind = "json")
            => \E id \in DOMAIN store' \ DOMAIN store :
                 /\ DOMAIN store' = DOMAIN store \cup {id}
                 /\ \A other \in DOMAIN store : store'[other] = store[other]
                 /\ \A f \in Fields : store'[id][f] = res'.req.document[f]
                 /\ res'.body.document = WithId(res'.req.document, id)
       /\ (res'.action = "read" /\ res'.kind = "json")
            => \A id \in DOMAIN store :
                 Matches(store[id], res'.req.filter)
                    => /\ WithId(store[id], id) \in Elements(res'.body.documents)
                       /\ (\A other \in DOMAIN store \ {id} :
                              Matches(store[other], res'.req.filter)
                                 => store[other].dateUpdated < store[id].dateUpdated)
                            => res'.body.documents[1] = WithId(store[id], id)
    ]_vars

\* A read has returned the document created last ahead of an older one.
C9_Witness ==
    /\ res.action = "read"
    /\ res.kind = "json"
    /\ Len(res.body.documents) = 2
    /\ res.body.documents[1]["_id"] = nextId - 1
    /\ res.body.documents[1].dateUpdated > res.body.documents[2].dateUpdated

\* C10: the read action responds with all the stored documents its filter
\* matches and only those, the most recently updated first, and does not
\* modify the store.
C10_ReadReturnsMatchesNewestFirst ==
    [][res'.action = "read"
         => /\ store' = store
            /\ res'.kind = "json" =>
                 LET documents == res'.body.documents IN
                 /\ Elements(documents) = Hits(store, res'.req.filter)
                 /\ Len(documents) = Cardinality(Hits(store, res'.req.filter))
                 /\ \A i, j \in 1..Len(documents) :
                      i < j => documents[i].dateUpdated >= documents[j].dateUpdated
    ]_vars

\* A read with a filter has returned one stored document and left the other out.
C10_Witness ==
    /\ res.action = "read"
    /\ res.kind = "json"
    /\ DOMAIN res.req.filter # {}
    /\ Len(res.body.documents) = 1
    /\ Cardinality(DOMAIN store) = 2

\* The store operations a body issues when none fails, in order.
StoreOps(name) ==
    CASE name = "create" -> <<"createOne">>
      [] name = "read"   -> <<"readMany">>
      [] name = "update" -> <<"updateOneById", "readOneById">>
      [] name = "delete" -> <<"popOneById">>

\* C15: an invocation of a CRUD body issues its store operations in order,
\* each once; it writes its one response exactly when all of them succeeded;
\* when one fails it issues no later store operation and writes no response,
\* and the store's error leaves the body as it is (for update, a failed
\* updateOneById is followed by no readOneById and the store is as it was).
C15_StoreFailureEndsTheBody ==
    [][res'.kind # "none" =>
         LET ops == res'.ops
             expected == StoreOps(res'.action)
             n == Len(ops)
         IN /\ n \in 1..Len(expected)
            /\ \A i \in 1..n : ops[i].op = expected[i]
            /\ \A i \in 1..(n - 1) : ops[i].ok
            /\ res'.kind = "json" <=> (n = Len(expected) /\ ops[n].ok)
            /\ res'.kind = "throw" <=> ~ ops[n].ok
            /\ res'.kind = "throw" => res'.body = [error |-> StoreError]
            /\ ~ ops[1].ok => (n = 1 /\ store' = store)
    ]_vars

\* An update of a stored document has ended with the error of its
\* updateOneById, having issued nothing else.
C15_Witness ==
    /\ res.action = "update"
    /\ res.kind = "throw"
    /\ res.ops = <<Failed("updateOneById")>>
    /\ res.req.id \in DOMAIN store
    /\ res.req.partialDocument # EmptyRecord

----------------------------------------------------------------------------
(* Properties of requests in flight, checked under SpecConc. *)

\* C16: in every interleaving of update and delete invocations on one
\* identifier, an update that found its document responds with a document
\* that is not null and carries the update's own patch value in every patched
\* field.
C16_UpdateReturnsItsOwnPatch ==
    [][\A r \in DOMAIN pending :
         (updateBodyReadBack(r) /\ res'.kind = "json" /\ pending[r].matched) =>
            LET update == pending[r].req.partialDocument
                document == res'.body.document
            IN /\ document # Null
               /\ \A f \in DOMAIN update : document[f] = update[f]
    ]_vars

====
